---- MODULE Spec2Model ----
(***************************************************************************)
(* Subdomain namespace allocator of uproom: the policy engine              *)
(* (generateSubdomain, validateFormat) and the availability resolver       *)
(* (checkAvailability, validateSubdomain, generateAlternatives) of         *)
(* src/lib/subdomain.ts, with the companies table the resolver queries.    *)
(*                                                                         *)
(* A string is a sequence of one-character strings.                        *)
(***************************************************************************)
EXTENDS Integers, Sequences, FiniteSets, TLC

VARIABLES
  input,            \* policy engine: the string handed to the pure function
  op,               \* policy engine: which pure function has run on input
  generated,        \* policy engine: generateSubdomain(input)
  formatValidation, \* policy engine: the value validateFormat returned
  store,            \* companies table: the subdomains that have a row
  inflight,         \* lookups sent to the store and not yet consumed by their caller
  lastCheck,        \* per process: the last lookup it consumed and what checkAvailability made of it
  pc,               \* generateAlternatives: position (idle, loop, await, done, failed)
  baseSubdomain,    \* generateAlternatives: argument
  count,            \* generateAlternatives: argument
  i,                \* generateAlternatives: loop counter
  alternatives,     \* generateAlternatives: the array being built, returned at done
  validations,      \* generateAlternatives: log of the validateSubdomain calls and their results
  run,              \* generateAlternatives: whether a lookup of this call faulted, and whether
                    \*   another party changed the store since it began
  prevRun,          \* generateAlternatives: the call before this one, when it completed and had
                    \*   the same arguments: what it returned, whether a lookup of it faulted,
                    \*   whether another party changed the store since it began
  cpc,              \* per caller: position (idle, await, checked, claimed, failed)
  cname,            \* per caller: the subdomain it validates and then claims
  cvalidation,      \* per caller: the value validateSubdomain returned
  clookups,         \* per caller: number of store lookups its validateSubdomain issued
  cclaim            \* per caller: outcome of its claim (none, ok, conflict)

policyVars == <<input, op, generated, formatValidation>>

storeVars == <<store, inflight, lastCheck>>

genVars == <<pc, baseSubdomain, count, i, alternatives, validations, run, prevRun>>

callerVars == <<cpc, cname, cvalidation, clookups, cclaim>>

vars == <<policyVars, storeVars, genVars, callerVars>>

(***************************************************************************)
(* Characters                                                              *)
(***************************************************************************)
LowerLetters == <<"a","b","c","d","e","f","g","h","i","j","k","l","m","n","o","p","q","r","s","t","u","v","w","x","y","z">>

UpperLetters == <<"A","B","C","D","E","F","G","H","I","J","K","L","M","N","O","P","Q","R","S","T","U","V","W","X","Y","Z">>

Digits == <<"0","1","2","3","4","5","6","7","8","9">>

Range(f) == {f[k] : k \in DOMAIN f}

\* the character class [a-z0-9]
AlnumChars == Range(LowerLetters) \cup Range(Digits)

\* the character class [a-z0-9-]
SubdomainChars == AlnumChars \cup {"-"}

\* String.prototype.toLowerCase on one character of the model's alphabet
LowerChar(c) ==
  IF \E k \in DOMAIN UpperLetters : UpperLetters[k] = c
  THEN LowerLetters[CHOOSE k \in DOMAIN UpperLetters : UpperLetters[k] = c]
  ELSE c

toLowerCase(s) == [k \in DOMAIN s |-> LowerChar(s[k])]

(***************************************************************************)
(* Policy engine                                                           *)
(***************************************************************************)
RESERVED_SUBDOMAINS ==
  {
    <<"w","w","w">>,
    <<"a","p","i">>,
    <<"a","d","m","i","n">>,
    <<"a","p","p">>,
    <<"m","a","i","l">>,
    <<"f","t","p">>,
    <<"b","l","o","g">>,
    <<"s","h","o","p">>,
    <<"s","t","o","r","e">>,
    <<"s","u","p","p","o","r","t">>,
    <<"h","e","l","p">>,
    <<"d","o","c","s">>,
    <<"d","e","v">>,
    <<"t","e","s","t">>,
    <<"s","t","a","g","i","n","g">>,
    <<"p","r","o","d">>,
    <<"p","r","o","d","u","c","t","i","o","n">>,
    <<"d","a","s","h","b","o","a","r","d">>,
    <<"p","o","r","t","a","l">>,
    <<"l","o","g","i","n">>,
    <<"r","e","g","i","s","t","e","r">>,
    <<"a","u","t","h">>,
    <<"a","c","c","o","u","n","t">>,
    <<"p","r","o","f","i","l","e">>,
    <<"s","e","t","t","i","n","g","s">>,
    <<"c","o","n","f","i","g">>,
    <<"s","t","a","t","u","s">>,
    <<"h","e","a","l","t","h">>,
    <<"p","i","n","g">>,
    <<"w","e","b","h","o","o","k">>,
    <<"c","a","l","l","b","a","c","k">>,
    <<"a","s","s","e","t","s">>,
    <<"s","t","a","t","i","c">>,
    <<"c","d","n">>,
    <<"m","e","d","i","a">>,
    <<"i","m","a","g","e","s">>,
    <<"f","i","l","e","s">>,
    <<"u","p","l","o","a","d","s">>
  }

MinLength == 3

MaxLength == 30

MsgTooShort == "Subdomain must be at least 3 characters long"

MsgTooLong == "Subdomain must be no more than 30 characters long"

MsgCharset == "Subdomain can only contain lowercase letters, numbers, and hyphens"

MsgEdgeHyphen == "Subdomain cannot start or end with a hyphen"

MsgDoubleHyphen == "Subdomain cannot contain consecutive hyphens"

MsgReserved == "This subdomain is reserved and cannot be used"

MsgValidFormat == "Valid subdomain format"

\* /^[a-z0-9-]+$/.test(s): one or more characters, all of the class
MatchesCharset(s) == Len(s) >= 1 /\ \A k \in 1..Len(s) : s[k] \in SubdomainChars

startsWithHyphen(s) == Len(s) >= 1 /\ s[1] = "-"

endsWithHyphen(s) == Len(s) >= 1 /\ s[Len(s)] = "-"

\* s.includes('--')
includesDoubleHyphen(s) == \E k \in 1..(Len(s) - 1) : s[k] = "-" /\ s[k + 1] = "-"

\* mutant of ReplaceNonAlnum: the class \W, which lets the underscore through
ReplaceNonWord(s) ==
  [k \in DOMAIN s |-> IF s[k] \in AlnumChars \cup {"_"} THEN s[k] ELSE "-"]

\* .replace(/[^a-z0-9]/g, '-')
ReplaceNonAlnum(s) == [k \in DOMAIN s |-> IF s[k] \in AlnumChars THEN s[k] ELSE "-"]

\* .replace(/-+/g, '-'): every maximal run of hyphens becomes one hyphen
RECURSIVE CollapseHyphens(_)
CollapseHyphens(s) ==
  IF Len(s) <= 1 THEN s
  ELSE IF s[1] = "-" /\ s[2] = "-" THEN CollapseHyphens(Tail(s))
  ELSE <<s[1]>> \o CollapseHyphens(Tail(s))

\* .replace(/^-|-$/g, ''): one hyphen at the start and one at the end are removed
StripEdgeHyphens(s) ==
  LET a == IF startsWithHyphen(s) THEN Tail(s) ELSE s
  IN  IF endsWithHyphen(a) THEN SubSeq(a, 1, Len(a) - 1) ELSE a

SubstringEnd == 30

\* .substring(0, 30)
Truncate(s) == SubSeq(s, 1, IF Len(s) < SubstringEnd THEN Len(s) ELSE SubstringEnd)

generateSubdomain(companyName) ==
  Truncate(StripEdgeHyphens(CollapseHyphens(ReplaceNonAlnum(toLowerCase(companyName)))))

\* mutant of validateFormat: the character class is tested before the lengths
validateFormatCharsetFirst(subdomain) ==
  IF ~MatchesCharset(subdomain) THEN [isValid |-> FALSE, message |-> MsgCharset]
  ELSE IF Len(subdomain) < MinLength THEN [isValid |-> FALSE, message |-> MsgTooShort]
  ELSE IF Len(subdomain) > MaxLength THEN [isValid |-> FALSE, message |-> MsgTooLong]
  ELSE IF startsWithHyphen(subdomain) \/ endsWithHyphen(subdomain)
    THEN [isValid |-> FALSE, message |-> MsgEdgeHyphen]
  ELSE IF includesDoubleHyphen(subdomain) THEN [isValid |-> FALSE, message |-> MsgDoubleHyphen]
  ELSE IF subdomain \in RESERVED_SUBDOMAINS THEN [isValid |-> FALSE, message |-> MsgReserved]
  ELSE [isValid |-> TRUE, message |-> MsgValidFormat]

validateFormat(subdomain) ==
  IF Len(subdomain) < MinLength THEN [isValid |-> FALSE, message |-> MsgTooShort]
  ELSE IF Len(subdomain) > MaxLength THEN [isValid |-> FALSE, message |-> MsgTooLong]
  ELSE IF ~MatchesCharset(subdomain) THEN [isValid |-> FALSE, message |-> MsgCharset]
  ELSE IF startsWithHyphen(subdomain) \/ endsWithHyphen(subdomain)
    THEN [isValid |-> FALSE, message |-> MsgEdgeHyphen]
  ELSE IF includesDoubleHyphen(subdomain) THEN [isValid |-> FALSE, message |-> MsgDoubleHyphen]
  ELSE IF subdomain \in RESERVED_SUBDOMAINS THEN [isValid |-> FALSE, message |-> MsgReserved]
  ELSE [isValid |-> TRUE, message |-> MsgValidFormat]

(***************************************************************************)
(* Availability resolver: the store query and checkAvailability            *)
(***************************************************************************)
Callers == {"c1", "c2"}

Gen == "gen"

Procs == Callers \cup {Gen}

\* what `await supabase.from('companies').select('id').eq(...).single()` yields:
\* { data, error } or a thrown fault
NoRowsResponse == [thrown |-> FALSE, data |-> "null", error |-> "PGRST116"]

RowResponse == [thrown |-> FALSE, data |-> "row", error |-> "null"]

ErrorResponse == [thrown |-> FALSE, data |-> "null", error |-> "OTHER"]

ThrownResponse == [thrown |-> TRUE, data |-> "null", error |-> "null"]

NoResponse == [thrown |-> FALSE, data |-> "unsent", error |-> "unsent"]

\* the rows of companies whose subdomain equals key
MatchingRows(s, key) == Cardinality({r \in s : r = key})

\* the store's answer to the exact-match query: the row, or PGRST116 for no row
single(s, key) == IF MatchingRows(s, key) = 0 THEN NoRowsResponse ELSE RowResponse

\* mutant of StoreAfterSelect: the query writes the subdomain it looks up
StoreAfterUpsert(s, key) == s \cup {key}

\* the query is a select: the table is as it was
StoreAfterSelect(s, key) == s

\* mutant of checkAvailability: no try/catch, a thrown fault reaches the caller
checkAvailabilityNoCatch(resp) ==
  IF resp.thrown THEN [value |-> FALSE, threw |-> TRUE]
  ELSE IF resp.error # "null" /\ resp.error = "PGRST116" THEN [value |-> TRUE, threw |-> FALSE]
  ELSE IF resp.error # "null" THEN [value |-> FALSE, threw |-> FALSE]
  ELSE [value |-> FALSE, threw |-> FALSE]

\* mutant of checkAvailability: any error object counts as "no rows"
checkAvailabilityAnyError(resp) ==
  IF resp.thrown THEN [value |-> FALSE, threw |-> FALSE]
  ELSE IF resp.error # "null" THEN [value |-> TRUE, threw |-> FALSE]
  ELSE [value |-> FALSE, threw |-> FALSE]

\* checkAvailability once the query has resolved with resp: the value returned,
\* and whether the call ended by throwing instead
checkAvailability(resp) ==
  IF resp.thrown THEN [value |-> FALSE, threw |-> FALSE]
  ELSE IF resp.error # "null" /\ resp.error = "PGRST116" THEN [value |-> TRUE, threw |-> FALSE]
  ELSE IF resp.error # "null" THEN [value |-> FALSE, threw |-> FALSE]
  ELSE [value |-> FALSE, threw |-> FALSE]

\* a lookup: who sent it, for which loop index (0 outside generateAlternatives),
\* the key, and once the store or the network has settled it, the response and
\* the number of matching rows the store held when it ran the query (-1: it never ran)
Lookup(p, suffix, key) ==
  [by |-> p, suffix |-> suffix, key |-> key, state |-> "sent", resp |-> NoResponse, rows |-> -1]

NoLookup == [by |-> "none", suffix |-> 0, key |-> <<>>, state |-> "none",
             resp |-> NoResponse, rows |-> -1]

NoCheck == [lookup |-> NoLookup, outcome |-> [value |-> FALSE, threw |-> FALSE]]

\* the store runs the query of lookup l against the table as it is now
StoreAnswer(l) ==
  /\ l \in inflight
  /\ l.state = "sent"
  /\ inflight' = (inflight \ {l}) \cup
       {[l EXCEPT !.state = "answered", !.resp = single(store, l.key),
                  !.rows = MatchingRows(store, l.key)]}
  /\ store' = StoreAfterSelect(store, l.key)
  /\ UNCHANGED <<lastCheck, policyVars, genVars, callerVars>>

\* the lookup fails instead: an error object other than PGRST116, or a thrown fault
StoreFault(l, resp) ==
  /\ l \in inflight
  /\ l.state = "sent"
  /\ resp \in {ErrorResponse, ThrownResponse}
  /\ inflight' = (inflight \ {l}) \cup {[l EXCEPT !.state = "answered", !.resp = resp]}
  /\ UNCHANGED <<store, lastCheck, policyVars, genVars, callerVars>>

(***************************************************************************)
(* validateSubdomain                                                       *)
(***************************************************************************)
\* mutant of ShortCircuits: the store is consulted whatever the format
NeverShortCircuits(fmt) == FALSE

\* if (!formatValidation.isValid) return ...
ShortCircuits(fmt) == ~fmt.isValid

FormatFailure(fmt) == [isValid |-> FALSE, isAvailable |-> FALSE, message |-> fmt.message]

MsgAvailable == "Subdomain is available"

MsgTaken == "Subdomain is already taken"

AvailabilityResult(isAvailable) ==
  [isValid |-> TRUE, isAvailable |-> isAvailable,
   message |-> IF isAvailable THEN MsgAvailable ELSE MsgTaken]

NoResult == [isValid |-> FALSE, isAvailable |-> FALSE, message |-> "none"]

(***************************************************************************)
(* generateAlternatives                                                    *)
(***************************************************************************)
\* template literal ${i}: the decimal digits of a natural number
RECURSIVE NumberToString(_)
NumberToString(n) ==
  IF n < 10 THEN <<Digits[n + 1]>>
  ELSE NumberToString(n \div 10) \o <<Digits[(n % 10) + 1]>>

\* `${baseSubdomain}-${i}`
Alternative(base, n) == base \o <<"-">> \o NumberToString(n)

\* mutant of LoopCondition: one suffix too many
LoopConditionOffByOne(n, cnt) == n <= cnt + 1

\* i <= count
LoopCondition(n, cnt) == n <= cnt

\* mutant of AwaitValidation: the promise is not awaited, the loop goes on
NoAwait(n) == [pc |-> "loop", i |-> n + 1]

\* await this.validateSubdomain(alternative): the loop stays at i until the
\* lookup has resolved
AwaitValidation(n) == [pc |-> "await", i |-> n]

\* mutant of FreshAlternatives: the array outlives the call that filled it
KeptAlternatives == alternatives

\* const alternatives: string[] = []
FreshAlternatives == <<>>

\* if (validation.isValid && validation.isAvailable) alternatives.push(alternative)
PushIfUsable(alts, alternative, validation) ==
  IF validation.isValid /\ validation.isAvailable THEN Append(alts, alternative) ELSE alts

NoRun == [faulted |-> FALSE, changed |-> FALSE]

NoPrevRun == [exists |-> FALSE, result |-> <<>>, faulted |-> FALSE, changed |-> FALSE]

(***************************************************************************)
(* The policy engine run on bounded inputs.  An input is                   *)
(* prefix \o a^n \o suffix: the affixes range over every string of at most *)
(* MaxAffix characters of InputChars, and the run of a's brings the length *)
(* to the limits the functions test (3 and 30).                            *)
(***************************************************************************)
MaxAffix == 2

InputChars == {"a", "w", "1", "-", "A", "_"}

RECURSIVE StringsUpTo(_)
StringsUpTo(n) ==
  IF n = 0 THEN {<<>>}
  ELSE LET shorter == StringsUpTo(n - 1)
       IN  shorter \cup {Append(s, c) : s \in shorter, c \in InputChars}

Repeat(c, n) == [k \in 1..n |-> c]

PadLengths == {0, 1, MaxLength - 2, MaxLength - 1, MaxLength + 1}

PolicyInputs ==
  {pre \o Repeat("a", n) \o suf : pre \in StringsUpTo(MaxAffix),
                                  suf \in StringsUpTo(MaxAffix),
                                  n \in PadLengths}

NoValidation == [isValid |-> FALSE, message |-> "none"]

PolicyInit ==
  /\ input \in PolicyInputs
  /\ op = "start"
  /\ generated = <<>>
  /\ formatValidation = NoValidation
  /\ pc = "idle"
  /\ baseSubdomain = <<>>
  /\ count = 0
  /\ i = 1
  /\ alternatives = <<>>
  /\ validations = <<>>
  /\ run = NoRun
  /\ prevRun = NoPrevRun
  /\ cvalidation = [c \in Callers |-> NoResult]
  /\ clookups = [c \in Callers |-> 0]
  /\ cclaim = [c \in Callers |-> "none"]
  /\ cpc = [c \in Callers |-> "unused"]
  /\ cname = [c \in Callers |-> <<>>]
  /\ store = {}
  /\ inflight = {}
  /\ lastCheck = [p \in Procs |-> NoCheck]

CallValidateFormat ==
  /\ op = "start"
  /\ formatValidation' = validateFormat(input)
  /\ op' = "validated"
  /\ UNCHANGED <<input, generated, storeVars, genVars, callerVars>>

CallGenerateSubdomain ==
  /\ op = "start"
  /\ generated' = generateSubdomain(input)
  /\ op' = "generated"
  /\ UNCHANGED <<input, formatValidation, storeVars, genVars, callerVars>>

\* validateFormat applied to what generateSubdomain produced
CallValidateGenerated ==
  /\ op = "generated"
  /\ formatValidation' = validateFormat(generated)
  /\ op' = "generatedValidated"
  /\ UNCHANGED <<input, generated, storeVars, genVars, callerVars>>

PolicyNext == CallValidateFormat \/ CallGenerateSubdomain \/ CallValidateGenerated

SpecPolicy == PolicyInit /\ [][PolicyNext]_vars

(***************************************************************************)
(* generateAlternatives as a process: one step per loop iteration that     *)
(* ends without a lookup, and two (issue, resume) per iteration that       *)
(* awaits the store.                                                       *)
(***************************************************************************)
MaxCount == 3

Bases == {<<"a", "b">>, <<"a", "-">>, <<"A", "b">>, <<>>}

\* the subdomains other parties claim and release while the flow runs
ExternalNames == {Alternative(<<"a", "b">>, k) : k \in 1..MaxCount}

ValidationEntry(subdomain, result) == [subdomain |-> subdomain, result |-> result]

CallGenerateAlternatives(base, cnt) ==
  /\ pc \in {"idle", "done"}
  /\ baseSubdomain' = base
  /\ count' = cnt
  /\ alternatives' = FreshAlternatives
  /\ i' = 1
  /\ pc' = "loop"
  /\ validations' = <<>>
  /\ prevRun' = IF pc = "done" /\ base = baseSubdomain /\ cnt = count
                THEN [exists |-> TRUE, result |-> alternatives,
                      faulted |-> run.faulted, changed |-> run.changed]
                ELSE NoPrevRun
  /\ run' = [faulted |-> FALSE, changed |-> FALSE]
  /\ UNCHANGED <<policyVars, storeVars, callerVars>>

\* the loop condition fails: return alternatives
LoopExit ==
  /\ pc = "loop"
  /\ ~LoopCondition(i, count)
  /\ pc' = "done"
  /\ UNCHANGED <<baseSubdomain, count, i, alternatives, validations, run, prevRun>>
  /\ UNCHANGED <<policyVars, storeVars, callerVars>>

\* an iteration whose validateSubdomain returns on the format check
LoopRejectFormat ==
  /\ pc = "loop"
  /\ LoopCondition(i, count)
  /\ LET alternative == Alternative(baseSubdomain, i)
         fmt == validateFormat(alternative)
         validation == FormatFailure(fmt)
     IN  /\ ShortCircuits(fmt)
         /\ validations' = Append(validations, ValidationEntry(alternative, validation))
         /\ alternatives' = PushIfUsable(alternatives, alternative, validation)
  /\ i' = i + 1
  /\ UNCHANGED <<pc, baseSubdomain, count, run, prevRun>>
  /\ UNCHANGED <<policyVars, storeVars, callerVars>>

\* an iteration whose validateSubdomain goes on to checkAvailability: the query is sent
LoopIssueLookup ==
  /\ pc = "loop"
  /\ LoopCondition(i, count)
  /\ LET alternative == Alternative(baseSubdomain, i)
     IN  /\ ~ShortCircuits(validateFormat(alternative))
         /\ inflight' = inflight \cup {Lookup(Gen, i, alternative)}
  /\ pc' = AwaitValidation(i).pc
  /\ i' = AwaitValidation(i).i
  /\ UNCHANGED <<baseSubdomain, count, alternatives, validations, run, prevRun>>
  /\ UNCHANGED <<store, lastCheck, policyVars, callerVars>>

\* the query has resolved: checkAvailability and validateSubdomain return, the
\* candidate is pushed or not, and the loop goes to its next index.  A response
\* nobody awaits is dropped.
LoopResume(l) ==
  /\ l \in inflight
  /\ l.by = Gen
  /\ l.state = "answered"
  /\ inflight' = inflight \ {l}
  /\ IF pc = "await" /\ l.suffix = i
     THEN LET outcome == checkAvailability(l.resp)
              alternative == Alternative(baseSubdomain, i)
              validation == AvailabilityResult(outcome.value)
          IN  /\ lastCheck' = [lastCheck EXCEPT ![Gen] = [lookup |-> l, outcome |-> outcome]]
              /\ run' = [run EXCEPT !.faulted = @ \/ l.rows = -1]
              /\ IF outcome.threw
                 THEN /\ pc' = "failed"
                      /\ UNCHANGED <<i, alternatives, validations>>
                 ELSE /\ pc' = "loop"
                      /\ i' = i + 1
                      /\ validations' =
                           Append(validations, ValidationEntry(alternative, validation))
                      /\ alternatives' = PushIfUsable(alternatives, alternative, validation)
     ELSE UNCHANGED <<lastCheck, run, pc, i, alternatives, validations>>
  /\ UNCHANGED <<baseSubdomain, count, prevRun>>
  /\ UNCHANGED <<store, policyVars, callerVars>>

\* another party claims a subdomain in its own transaction
ExternalClaim(k) ==
  /\ k \notin store
  /\ store' = store \cup {k}
  /\ run' = [run EXCEPT !.changed = TRUE]
  /\ prevRun' = [prevRun EXCEPT !.changed = prevRun.exists]
  /\ UNCHANGED <<inflight, lastCheck, pc, baseSubdomain, count, i, alternatives, validations>>
  /\ UNCHANGED <<policyVars, callerVars>>

\* another party gives a subdomain up
ExternalRelease(k) ==
  /\ k \in store
  /\ store' = store \ {k}
  /\ run' = [run EXCEPT !.changed = TRUE]
  /\ prevRun' = [prevRun EXCEPT !.changed = prevRun.exists]
  /\ UNCHANGED <<inflight, lastCheck, pc, baseSubdomain, count, i, alternatives, validations>>
  /\ UNCHANGED <<policyVars, callerVars>>

(***************************************************************************)
(* Callers that validate a subdomain and then claim it                     *)
(***************************************************************************)
Names ==
  { <<"a", "b", "c">>, <<"a", "-", "1">>,
    <<"a", "b">>, <<"w", "w", "w">>, <<"-", "a", "b">>,
    <<"a", "-", "-", "b">>, <<"A", "b", "c">>, Repeat("a", MaxLength + 1) }

\* validateSubdomain returns on the format check
ValidateRejectFormat(c) ==
  /\ cpc[c] = "idle"
  /\ LET fmt == validateFormat(cname[c])
     IN  /\ ShortCircuits(fmt)
         /\ cvalidation' = [cvalidation EXCEPT ![c] = FormatFailure(fmt)]
  /\ cpc' = [cpc EXCEPT ![c] = "checked"]
  /\ UNCHANGED <<cname, clookups, cclaim, policyVars, storeVars, genVars>>

\* validateSubdomain goes on to checkAvailability: the query is sent
ValidateIssueLookup(c) ==
  /\ cpc[c] = "idle"
  /\ ~ShortCircuits(validateFormat(cname[c]))
  /\ inflight' = inflight \cup {Lookup(c, 0, cname[c])}
  /\ clookups' = [clookups EXCEPT ![c] = @ + 1]
  /\ cpc' = [cpc EXCEPT ![c] = "await"]
  /\ UNCHANGED <<cname, cvalidation, cclaim, store, lastCheck, policyVars, genVars>>

\* the query has resolved: checkAvailability and validateSubdomain return
ValidateResume(c, l) ==
  /\ cpc[c] = "await"
  /\ l \in inflight
  /\ l.by = c
  /\ l.state = "answered"
  /\ inflight' = inflight \ {l}
  /\ LET outcome == checkAvailability(l.resp)
     IN  /\ lastCheck' = [lastCheck EXCEPT ![c] = [lookup |-> l, outcome |-> outcome]]
         /\ IF outcome.threw
            THEN /\ cpc' = [cpc EXCEPT ![c] = "failed"]
                 /\ UNCHANGED cvalidation
            ELSE /\ cpc' = [cpc EXCEPT ![c] = "checked"]
                 /\ cvalidation' = [cvalidation EXCEPT ![c] = AvailabilityResult(outcome.value)]
  /\ UNCHANGED <<cname, clookups, cclaim, store, policyVars, genVars>>

\* the caller's own transaction: insert the row under the store's uniqueness
\* constraint, after a check that said valid and available
Claim(c) ==
  /\ cpc[c] = "checked"
  /\ cvalidation[c].isValid
  /\ cvalidation[c].isAvailable
  /\ IF cname[c] \in store
     THEN /\ cclaim' = [cclaim EXCEPT ![c] = "conflict"]
          /\ UNCHANGED store
     ELSE /\ cclaim' = [cclaim EXCEPT ![c] = "ok"]
          /\ store' = store \cup {cname[c]}
  /\ cpc' = [cpc EXCEPT ![c] = "claimed"]
  /\ UNCHANGED <<cname, cvalidation, clookups, inflight, lastCheck, policyVars, genVars>>

(***************************************************************************)
(* Specifications                                                          *)
(***************************************************************************)
PolicyIdle ==
  /\ input = <<>>
  /\ op = "unused"
  /\ generated = <<>>
  /\ formatValidation = NoValidation

GenIdle ==
  /\ pc = "idle"
  /\ baseSubdomain = <<>>
  /\ count = 0
  /\ i = 1
  /\ alternatives = <<>>
  /\ validations = <<>>
  /\ run = NoRun
  /\ prevRun = NoPrevRun

CallersIdle ==
  /\ cvalidation = [c \in Callers |-> NoResult]
  /\ clookups = [c \in Callers |-> 0]
  /\ cclaim = [c \in Callers |-> "none"]

NoTraffic ==
  /\ inflight = {}
  /\ lastCheck = [p \in Procs |-> NoCheck]

\* generateAlternatives called again and again while other parties change the store
Init ==
  /\ PolicyIdle
  /\ GenIdle
  /\ CallersIdle
  /\ cpc = [c \in Callers |-> "unused"]
  /\ cname = [c \in Callers |-> <<>>]
  /\ store \in SUBSET ExternalNames
  /\ NoTraffic

Next ==
  \/ \E base \in Bases, cnt \in 0..MaxCount : CallGenerateAlternatives(base, cnt)
  \/ LoopExit
  \/ LoopRejectFormat
  \/ LoopIssueLookup
  \/ \E l \in inflight : StoreAnswer(l)
  \/ \E l \in inflight, resp \in {ErrorResponse, ThrownResponse} : StoreFault(l, resp)
  \/ \E l \in inflight : LoopResume(l)
  \/ \E k \in ExternalNames : ExternalClaim(k)
  \/ \E k \in ExternalNames : ExternalRelease(k)

Spec == Init /\ [][Next]_vars

\* two callers, each validating one name and claiming it when told it is free
ClaimInit ==
  /\ PolicyIdle
  /\ GenIdle
  /\ CallersIdle
  /\ cpc = [c \in Callers |-> "idle"]
  /\ cname \in [Callers -> Names]
  /\ store \in SUBSET {n \in Names : validateFormat(n).isValid}
  /\ NoTraffic

ClaimNext ==
  \/ \E c \in Callers : ValidateRejectFormat(c)
  \/ \E c \in Callers : ValidateIssueLookup(c)
  \/ \E l \in inflight : StoreAnswer(l)
  \/ \E l \in inflight, resp \in {ErrorResponse, ThrownResponse} : StoreFault(l, resp)
  \/ \E c \in Callers, l \in inflight : ValidateResume(c, l)
  \/ \E c \in Callers : Claim(c)

SpecClaim == ClaimInit /\ [][ClaimNext]_vars

(***************************************************************************)
(* Properties of the policy engine                                         *)
(***************************************************************************)
\* the six rules of the specification, in its order, each stated on its own
RuleViolated(r, s) ==
  CASE r = 1 -> Len(s) < 3
    [] r = 2 -> Len(s) > 30
    [] r = 3 -> s = <<>> \/ \E k \in 1..Len(s) : s[k] \notin SubdomainChars
    [] r = 4 -> s # <<>> /\ ("-" = s[1] \/ "-" = s[Len(s)])
    [] r = 5 -> \E k \in 1..Len(s) : k < Len(s) /\ <<s[k], s[k + 1]>> = <<"-", "-">>
    [] r = 6 -> s \in RESERVED_SUBDOMAINS

RuleMessage ==
  <<MsgTooShort, MsgTooLong, MsgCharset, MsgEdgeHyphen, MsgDoubleHyphen, MsgReserved>>

ViolatedRules(s) == {r \in 1..6 : RuleViolated(r, s)}

FirstViolatedRule(s) == CHOOSE r \in ViolatedRules(s) : \A q \in ViolatedRules(s) : r <= q

\* C3: validateFormat answers with the message of the first rule, in the order
\* too-short, too-long, charset, edge hyphen, consecutive hyphens, reserved,
\* that the input violates, and answers valid only when no rule is violated.
C3_FirstFailureWins ==
  op = "validated" =>
    IF ViolatedRules(input) = {}
    THEN formatValidation = [isValid |-> TRUE, message |-> MsgValidFormat]
    ELSE formatValidation =
           [isValid |-> FALSE, message |-> RuleMessage[FirstViolatedRule(input)]]

\* an input that is too short and also breaks the charset and the hyphen rules
C3_Witness ==
  /\ op = "validated"
  /\ {1, 3, 4} \subseteq ViolatedRules(input)
  /\ formatValidation.message = MsgTooShort

\* C9 as stated: the output of generateSubdomain has at most 30 characters and
\* passes the charset test /^[a-z0-9-]+$/ of validateFormat.
C9_OutputPassesCharsetTest ==
  op = "generated" => Len(generated) <= 30 /\ MatchesCharset(generated)

\* C9 amended: the output of generateSubdomain has at most 30 characters, all of
\* them of [a-z0-9-]; it passes the charset test whenever it is not empty.
C9_OutputCharsInClass ==
  op = "generated" =>
    /\ Len(generated) <= 30
    /\ \A k \in 1..Len(generated) : generated[k] \in SubdomainChars
    /\ generated # <<>> => MatchesCharset(generated)

\* a display name longer than 30 with upper case and punctuation, cut to 30
C9_Witness ==
  /\ op = "generated"
  /\ Len(input) > 30
  /\ \E k \in 1..Len(input) : input[k] = "A"
  /\ \E k \in 1..Len(input) : input[k] = "_"
  /\ Len(generated) = 30

\* C10: the output of generateSubdomain neither starts nor ends with a hyphen
\* and holds no two hyphens in a row, so validateFormat accepts it whenever it
\* has at least 3 characters and is not reserved.
C10_OutputHyphenFree ==
  /\ op \in {"generated", "generatedValidated"} =>
       /\ ~startsWithHyphen(generated)
       /\ ~endsWithHyphen(generated)
       /\ ~includesDoubleHyphen(generated)
  /\ (op = "generatedValidated" /\ Len(generated) >= 3
        /\ generated \notin RESERVED_SUBDOMAINS) => formatValidation.isValid

(***************************************************************************)
(* Properties of the availability resolver                                 *)
(***************************************************************************)
Returned(c) == cpc[c] \in {"checked", "claimed"}

SaidAvailable(c) == Returned(c) /\ cvalidation[c].isValid /\ cvalidation[c].isAvailable

\* C1: when validateSubdomain returns valid and available, the candidate breaks
\* no format rule and is not reserved, and the store held no row with that
\* subdomain at the instant it ran the lookup.
C1_AvailableWasFreeAtLookup ==
  \A c \in Callers :
    SaidAvailable(c) =>
      /\ ViolatedRules(cname[c]) = {}
      /\ lastCheck[c].lookup.key = cname[c]
      /\ lastCheck[c].lookup.rows = 0

\* the answer still says available although the name has been taken since the lookup
C1_Witness ==
  \E c \in Callers : cpc[c] = "checked" /\ SaidAvailable(c) /\ cname[c] \in store

\* C2: checkAvailability returns true only for a lookup that ran and found no
\* row; for a lookup that found a row, came back with an error or threw, it
\* returns false, and it never throws to its caller.
C2_FailClosed ==
  \A c \in Callers :
    lastCheck[c].lookup.state = "answered" =>
      /\ ~lastCheck[c].outcome.threw
      /\ cpc[c] # "failed"
      /\ lastCheck[c].outcome.value = (lastCheck[c].lookup.rows = 0)
      /\ Returned(c) => cvalidation[c].isAvailable = (lastCheck[c].lookup.rows = 0)

\* a lookup that threw, answered with "taken"
C2_Witness ==
  \E c \in Callers :
    /\ lastCheck[c].lookup.resp = ThrownResponse
    /\ cpc[c] = "checked"
    /\ cvalidation[c] = [isValid |-> TRUE, isAvailable |-> FALSE, message |-> MsgTaken]

\* C5: for a candidate validateFormat rejects, validateSubdomain issues no store
\* lookup and returns isValid = false, isAvailable = false with the message of
\* the format rule.
C5_ShortCircuit ==
  /\ \A c \in Callers :
       (cpc[c] # "unused" /\ ~validateFormat(cname[c]).isValid) =>
         /\ clookups[c] = 0
         /\ cpc[c] \in {"idle", "checked"}
         /\ cpc[c] = "checked" =>
              cvalidation[c] = [isValid |-> FALSE, isAvailable |-> FALSE,
                                message |-> validateFormat(cname[c]).message]
  /\ \A l \in inflight : validateFormat(l.key).isValid

\* a reserved name turned down with no lookup sent
C5_Witness ==
  \E c \in Callers :
    /\ cname[c] = <<"w", "w", "w">>
    /\ cpc[c] = "checked"
    /\ cvalidation[c].message = MsgReserved
    /\ clookups[c] = 0
    /\ \A l \in inflight : l.by # c

\* C6: an "available" answer reserves nothing: the name of a caller that was told
\* available and has not claimed yet is in the store only when another caller
\* has claimed it; and of the callers claiming one name at most one succeeds.
C6_AvailableDoesNotReserve ==
  /\ \A c \in Callers :
       (cpc[c] = "checked" /\ SaidAvailable(c) /\ cname[c] \in store) =>
         \E d \in Callers \ {c} : cname[d] = cname[c] /\ cclaim[d] = "ok"
  /\ \A n \in Names : Cardinality({c \in Callers : cname[c] = n /\ cclaim[c] = "ok"}) <= 1
  /\ \A c \in Callers : cclaim[c] = "ok" => cname[c] \in store

\* both callers were told available for one name; one claim went through and the
\* other failed
C6_Witness ==
  \E c, d \in Callers :
    /\ c # d
    /\ cname[c] = cname[d]
    /\ cvalidation[c].isAvailable
    /\ cvalidation[d].isAvailable
    /\ lastCheck[c].lookup.rows = 0
    /\ lastCheck[d].lookup.rows = 0
    /\ cclaim[c] = "ok"
    /\ cclaim[d] = "conflict"

(***************************************************************************)
(* Properties of generateAlternatives                                      *)
(***************************************************************************)
Candidates == [k \in 1..count |-> Alternative(baseSubdomain, k)]

Usable(subdomain) ==
  \E k \in 1..Len(validations) :
    /\ validations[k].subdomain = subdomain
    /\ validations[k].result.isValid
    /\ validations[k].result.isAvailable

\* C4: generateAlternatives returns the candidates base-1 .. base-count that
\* validateSubdomain reported valid and available, in ascending suffix order;
\* every one of them is tried, none beyond count is, and the call returns (with
\* an empty array when none qualifies) instead of failing.
C4_AlternativesExact ==
  /\ pc # "failed"
  /\ Len(validations) <= count
  /\ \A k \in 1..Len(validations) : validations[k].subdomain = Candidates[k]
  /\ \A l \in inflight : l.by = Gen => l.suffix \in 1..count /\ l.key = Candidates[l.suffix]
  /\ pc = "done" =>
       /\ Len(validations) = count
       /\ alternatives = SelectSeq(Candidates, Usable)

\* three candidates tried, the middle one taken
C4_Witness ==
  /\ pc = "done"
  /\ count = 3
  /\ alternatives = <<Alternative(baseSubdomain, 1), Alternative(baseSubdomain, 3)>>
  /\ validations[2].result = AvailabilityResult(FALSE)

GenLookups == {l \in inflight : l.by = Gen}

\* C7: one generateAlternatives call never has more than one lookup outstanding,
\* and the lookup for a suffix is outstanding only once the checks of all
\* smaller suffixes have returned.
C7_OneLookupAtATime ==
  /\ Cardinality(GenLookups) <= 1
  /\ \A l \in GenLookups :
       /\ pc = "await"
       /\ l.suffix = i
       /\ Len(validations) = i - 1

\* the lookup of the second candidate out, the first one's round trip done
C7_Witness ==
  /\ pc = "await"
  /\ i = 2
  /\ \E l \in GenLookups : l.suffix = 2 /\ l.state = "sent"
  /\ lastCheck[Gen].lookup.suffix = 1
  /\ lastCheck[Gen].lookup.state = "answered"

OtherPartyStep == \E k \in ExternalNames : ExternalClaim(k) \/ ExternalRelease(k)

====
